---- MODULE Spec2Model ----
(***************************************************************************)
(* Assessment analytics engine of the summarizer: the DataProcessor of     *)
(* src/src/data_processor.py (schema validation, the query views and the   *)
(* analysis prompt), modelled as a state machine over one caller session.  *)
(*                                                                         *)
(* A DataFrame is a record [columns, rows]: the set of its column names    *)
(* and the sequence of its rows, each row a function from the column       *)
(* names to cell values.  A missing cell (pandas NaN / None) is the value  *)
(* NaN.  Ratings are integers; a mean is the exact fraction sum/count,     *)
(* kept in lowest terms.                                                   *)
(***************************************************************************)
EXTENDS Integers, Sequences, FiniteSets, TLC

VARIABLES
    raw,     \* the frame the caller supplies to DataProcessor(...)
    data,    \* self.data of the DataProcessor the caller holds, if any
    call,    \* the caller's last call on the processor
    result,  \* what that call returned
    error,   \* what that call raised
    firstCall,   \* the first query made on the processor, for comparison
    events,  \* the calls the last call made on its collaborators, in order
    response, \* what requests.post produced during the last call
    blobs,   \* the container in blob storage: what is stored under each name
    cache    \* what st.cache_data holds for the functions of main.py

vars ==
    <<raw, data, call, result, error, firstCall, events, response, blobs, cache>>

(***************************************************************************)
(* Bounds of the model.                                                    *)
(***************************************************************************)
MaxRows == 3
MaxHistoryRows == 1
MaxSheetRows == 1

(***************************************************************************)
(* Values.                                                                 *)
(***************************************************************************)
NaN == "<NaN>"
NoObject == [columns |-> {}, rows |-> <<>>, object |-> FALSE]
NoCall == [op |-> "none", scope |-> "", is_group |-> FALSE]
NoResult == [kind |-> "none", value |-> <<>>]
NoError == [type |-> "none", msg |-> <<>>]

\* response = None: requests.post has not returned a response
NoResponse == [received |-> FALSE, status |-> 0, body |-> "none", content |-> ""]

\* no blob under a name; bytes that are no workbook
Absent == [exists |-> FALSE, workbook |-> FALSE, header |-> <<>>, cells |-> <<>>]
NotExcel == [exists |-> TRUE, workbook |-> FALSE, header |-> <<>>, cells |-> <<>>]
FileNames == {"a.xlsx", "b.xlsx"}
NoBlobs == [n \in FileNames |-> Absent]

\* st.cache_data with nothing stored: per function, a mapping from the
\* hashed arguments to the stored return value
NoCache == [load_and_process_data |-> <<>>, summarize_data |-> <<>>]

\* the record of the first query: not kept, or kept and still empty
NotTracked ==
    [tracked |-> FALSE, set |-> FALSE, between |-> FALSE,
     call |-> NoCall, result |-> NoResult, error |-> NoError]
NothingYet == [NotTracked EXCEPT !.tracked = TRUE]

(***************************************************************************)
(* Generic sequence helpers.                                               *)
(***************************************************************************)
Range(s) == {s[i] : i \in 1..Len(s)}

Contains(s, v) == \E i \in 1..Len(s) : s[i] = v

RECURSIVE SeqSum(_)
SeqSum(s) == IF s = <<>> THEN 0 ELSE Head(s) + SeqSum(Tail(s))

\* str.join: the parts with the separator between neighbours, as tokens
RECURSIVE Join(_, _)
Join(sep, parts) ==
    IF parts = <<>> THEN <<>>
    ELSE IF Len(parts) = 1 THEN <<parts[1]>>
    ELSE <<parts[1], sep>> \o Join(sep, Tail(parts))

(***************************************************************************)
(* The schema.                                                             *)
(***************************************************************************)
required_columns ==
    << "Group Names", "Entity Name", "Capability Name", "Template Name",
       "Assessment Date", "Assessment Number", "Rating", "Notes",
       "Criteria", "Criteria Stage" >>

RequiredSet == Range(required_columns)

(***************************************************************************)
(* Input frames.  Cells are drawn from small domains; a row is the base    *)
(* row changed in at most one of entity, capability, assessment number,    *)
(* rating and note.  An entity belongs to one group; the date and the      *)
(* template follow the assessment number; the criteria text and stage      *)
(* follow the rating.                                                      *)
(***************************************************************************)
Entities == {"Entity1", "Entity2", "Entity3"}
Capabilities == {"CapabilityB", "CapabilityA"}
Numbers == {1, 2}
Ratings == {2, 5}
NoteCells == {NaN, "", "Note1"}

GroupOf(e) == IF e = "Entity3" THEN "Group2" ELSE "Group1"
DateOf(n) == IF n = 1 THEN "2023-01-01" ELSE "2023-01-02"
TemplateOf(n) == IF n = 1 THEN "Template1" ELSE "Template2"
CriteriaOf(r) == IF r = 2 THEN "Criteria1" ELSE "Criteria2"
StageOf(r) == IF r = 2 THEN "Stage1" ELSE "Stage2"

Cell(col, e, c, n, r, note) ==
    CASE col = "Group Names" -> GroupOf(e)
      [] col = "Entity Name" -> e
      [] col = "Capability Name" -> c
      [] col = "Template Name" -> TemplateOf(n)
      [] col = "Assessment Date" -> DateOf(n)
      [] col = "Assessment Number" -> n
      [] col = "Rating" -> r
      [] col = "Notes" -> note
      [] col = "Comments" -> note
      [] col = "Criteria" -> CriteriaOf(r)
      [] col = "Criteria Stage" -> StageOf(r)

Deviations(e, c, n, r, note) ==
    (IF e = "Entity1" THEN 0 ELSE 1) + (IF c = "CapabilityB" THEN 0 ELSE 1)
    + (IF n = 2 THEN 0 ELSE 1) + (IF r = 2 THEN 0 ELSE 1)
    + (IF note = NaN THEN 0 ELSE 1)

RowSpecs ==
    {s \in Entities \X Capabilities \X Numbers \X Ratings \X NoteCells :
        Deviations(s[1], s[2], s[3], s[4], s[5]) <= 1}

RowOver(cols, s) == [col \in cols |-> Cell(col, s[1], s[2], s[3], s[4], s[5])]

SeqsUpTo(S, n) == UNION {[1..k -> S] : k \in 0..n}

\* the columns a supplied frame may lack; a frame without a Notes column may
\* carry the note cells in a Comments column instead
Droppable == {"Group Names", "Notes", "Criteria Stage"}

ColumnSets ==
    {RequiredSet \ drop : drop \in SUBSET Droppable}
    \cup {((RequiredSet \ drop) \ {"Notes"}) \cup {"Comments"} :
             drop \in SUBSET Droppable}

FramesUpTo(n) ==
    {[columns |-> cols, rows |-> [i \in 1..Len(ss) |-> RowOver(cols, ss[i])]] :
        cols \in ColumnSets, ss \in SeqsUpTo(RowSpecs, n)}

Frames == FramesUpTo(MaxRows)

(***************************************************************************)
(* Exceptions.                                                             *)
(***************************************************************************)
ValueError(msg) == [type |-> "ValueError", msg |-> msg]
KeyError(key) == [type |-> "KeyError", msg |-> <<key>>]

(***************************************************************************)
(* DataProcessor._validate_data                                            *)
(***************************************************************************)
missing_columns(df) ==
    SelectSeq(required_columns, LAMBDA col : col \notin df.columns)

\* the error naming only the first missing column
FirstMissingOnly(df) ==
    IF missing_columns(df) = <<>> THEN NoError
    ELSE ValueError(<<"Missing required columns: ", missing_columns(df)[1]>>)

\* the exception _validate_data raises on df, NoError if it returns
_validate_data(df) ==
    IF missing_columns(df) # <<>>
    THEN ValueError(<<"Missing required columns: ">>
                    \o Join(", ", missing_columns(df)))
    ELSE NoError

(***************************************************************************)
(* What a call produces: a returned value or a raised exception.           *)
(***************************************************************************)
Return(kind, value) ==
    [ok |-> TRUE, kind |-> kind, value |-> value, error |-> NoError]
Raise(exc) ==
    [ok |-> FALSE, kind |-> "none", value |-> <<>>, error |-> exc]

(***************************************************************************)
(* pandas, as far as the DataProcessor uses it.                            *)
(***************************************************************************)
\* pd.DataFrame(records): a list of no records gives a frame of no columns
DataFrame(records) ==
    IF records = <<>> THEN [columns |-> {}, rows |-> <<>>]
    ELSE [columns |-> DOMAIN records[1], rows |-> records]

\* df[col] of a column that exists
Column(df, col) == [i \in 1..Len(df.rows) |-> df.rows[i][col]]

\* each value once, at the place of its last appearance
UniqueKeepLast(s) ==
    LET last == SelectSeq([i \in 1..Len(s) |-> i],
                          LAMBDA i : \A j \in (i + 1)..Len(s) : s[j] # s[i])
    IN [k \in 1..Len(last) |-> s[last[k]]]

\* Series.unique(): each value once, in order of first appearance
unique(s) ==
    LET first == SelectSeq([i \in 1..Len(s) |-> i],
                           LAMBDA i : \A j \in 1..(i - 1) : s[j] # s[i])
    IN [k \in 1..Len(first) |-> s[first[k]]]

\* Series.dropna()
dropna(s) == SelectSeq(s, LAMBDA v : v # NaN)

\* df[df[col] == value]
WhereEquals(df, col, value) ==
    [columns |-> df.columns,
     rows |-> SelectSeq(df.rows, LAMBDA row : row[col] = value)]

RECURSIVE GCD(_, _)
GCD(a, b) == IF b = 0 THEN a ELSE GCD(b, a % b)

\* Series.mean() of a non-empty series: sum / count, in lowest terms
mean(s) ==
    LET total == SeqSum(s)
        count == Len(s)
        g == GCD(total, count)
    IN <<total \div g, count \div g>>

\* the values of col in the rows of df whose by-column equals key, row order
GroupValues(df, by, key, col) == Column(WhereEquals(df, by, key), col)

\* the grouped means with the keys left in order of first appearance
GroupbyMeanUnsorted(df, by, col) ==
    LET keys == unique(Column(df, by))
    IN [k \in 1..Len(keys) |-> <<keys[k], mean(GroupValues(df, by, keys[k], col))>>]

\* df.groupby(by)[col].mean() with integer keys: a Series indexed by the
\* keys in ascending order
groupby_mean_sorted(df, by, col) ==
    LET keys == SortSeq(unique(Column(df, by)), LAMBDA a, b : a < b)
    IN [k \in 1..Len(keys) |-> <<keys[k], mean(GroupValues(df, by, keys[k], col))>>]

\* df.groupby(by)[col].mean().to_dict()
groupby_mean_dict(df, by, col) ==
    [key \in Range(Column(df, by)) |-> mean(GroupValues(df, by, key, col))]

\* Series.value_counts().to_dict()
value_counts(s) ==
    [v \in Range(s) |-> Cardinality({i \in 1..Len(s) : s[i] = v})]

(***************************************************************************)
(* The query views of DataProcessor; self is the frame self.data.          *)
(***************************************************************************)
get_entities(self) == unique(Column(self, "Entity Name"))

get_groups(self) == unique(Column(self, "Group Names"))

\* the filter with is_group ignored
FilterByEntityOnly(self, entity_or_group, is_group) ==
    WhereEquals(self, "Entity Name", entity_or_group).rows

get_assessment_data(self, entity_or_group, is_group) ==
    IF is_group
    THEN WhereEquals(self, "Group Names", entity_or_group).rows
    ELSE WhereEquals(self, "Entity Name", entity_or_group).rows

get_progress(self, entity_or_group, is_group) ==
    LET df == DataFrame(get_assessment_data(self, entity_or_group, is_group))
    IN IF "Assessment Number" \notin df.columns
       THEN Raise(KeyError("Assessment Number"))
       ELSE Return("series", groupby_mean_sorted(df, "Assessment Number", "Rating"))

get_capability_scores(self, entity_or_group, is_group) ==
    LET df == DataFrame(get_assessment_data(self, entity_or_group, is_group))
    IN IF "Capability Name" \notin df.columns
       THEN Raise(KeyError("Capability Name"))
       ELSE Return("dict", groupby_mean_dict(df, "Capability Name", "Rating"))

\* the distribution counted over the whole held frame
CriteriaDistributionUnfiltered(self, entity_or_group, is_group) ==
    LET df == DataFrame(get_assessment_data(self, entity_or_group, is_group))
    IN IF "Criteria Stage" \notin df.columns
       THEN Raise(KeyError("Criteria Stage"))
       ELSE Return("dict", value_counts(Column(self, "Criteria Stage")))

get_criteria_distribution(self, entity_or_group, is_group) ==
    LET df == DataFrame(get_assessment_data(self, entity_or_group, is_group))
    IN IF "Criteria Stage" \notin df.columns
       THEN Raise(KeyError("Criteria Stage"))
       ELSE Return("dict", value_counts(Column(df, "Criteria Stage")))

get_notes(self, entity_or_group, is_group) ==
    LET df == DataFrame(get_assessment_data(self, entity_or_group, is_group))
    IN IF "Notes" \notin df.columns
       THEN Raise(KeyError("Notes"))
       ELSE Return("list", dropna(Column(df, "Notes")))

get_assessment_dates(self, entity_or_group, is_group) ==
    LET df == DataFrame(get_assessment_data(self, entity_or_group, is_group))
    IN IF "Assessment Date" \notin df.columns
       THEN Raise(KeyError("Assessment Date"))
       ELSE Return("list", unique(Column(df, "Assessment Date")))

get_template_names(self, entity_or_group, is_group) ==
    LET df == DataFrame(get_assessment_data(self, entity_or_group, is_group))
    IN IF "Template Name" \notin df.columns
       THEN Raise(KeyError("Template Name"))
       ELSE Return("list", unique(Column(df, "Template Name")))

(***************************************************************************)
(* DataProcessor.generate_analysis_prompt.  The prompt is the sequence of  *)
(* its lines, each line the sequence of its text pieces; the two blocks of *)
(* fixed text stand as one line each.                                      *)
(***************************************************************************)
\* the capability names in the order Python compares strings
Lexicographic == <<"CapabilityA", "CapabilityB">>

StrLess(a, b) ==
    \E i, j \in 1..Len(Lexicographic) :
        i < j /\ Lexicographic[i] = a /\ Lexicographic[j] = b

\* f"{x:.2f}" of a whole number
Format2f(x) == ToString(x) \o ".00"

InstructionBlock == <<"Please provide the following analysis in this order: 1. .. 7.">>
ClosingBlock == <<"Please provide a focused analysis based on this data, ..">>

\* the keys of df.groupby('Capability Name'), in iteration order
GroupKeys(df) ==
    SortSeq(unique(Column(df, "Capability Name")), StrLess)

\* the rows of one capability, in row order
GroupOfCapability(df, capability) == WhereEquals(df, "Capability Name", capability)

\* group[[..]].dropna(subset=['Notes'])
NotesRows(group) == SelectSeq(group.rows, LAMBDA row : row["Notes"] # NaN)

CriteriaLines(group) ==
    << <<"Criteria: ">> \o Join("; ", unique(Column(group, "Criteria"))),
       <<"Criteria Stage: ">> \o Join(", ", unique(Column(group, "Criteria Stage"))) >>

RECURSIVE NoteLines(_)
NoteLines(rows) ==
    IF rows = <<>> THEN <<>>
    ELSE << <<"Assessment Number: ", ToString(Head(rows)["Assessment Number"])>>,
            <<"Date: ", Head(rows)["Assessment Date"]>>,
            <<"Notes: ", Head(rows)["Notes"]>> >> \o NoteLines(Tail(rows))

\* the entry's opening lines with the rating of the group's first row
RatingLinesFirstRow(capability, group) ==
    << <<"Capability: ", capability>>,
       <<"Most Recent Rating: ", Format2f(Column(group, "Rating")[1])>> >>

RatingLines(capability, group) ==
    << <<"Capability: ", capability>>,
       <<"Most Recent Rating: ",
         Format2f(Column(group, "Rating")[Len(group.rows)])>> >>

\* the first loop: the capabilities that have a row whose note is not NaN
RECURSIVE WithNotesLines(_, _)
WithNotesLines(df, keys) ==
    IF keys = <<>> THEN <<>>
    ELSE LET group == GroupOfCapability(df, Head(keys))
             notes == NotesRows(group)
         IN (IF notes # <<>>
             THEN RatingLines(Head(keys), group) \o << <<"Notes Over Time:">> >>
                  \o NoteLines(notes) \o CriteriaLines(group)
             ELSE <<>>)
            \o WithNotesLines(df, Tail(keys))

\* the second loop: the capabilities all of whose notes are NaN
RECURSIVE WithoutNotesLines(_, _)
WithoutNotesLines(df, keys) ==
    IF keys = <<>> THEN <<>>
    ELSE LET group == GroupOfCapability(df, Head(keys))
         IN (IF \A i \in 1..Len(group.rows) : group.rows[i]["Notes"] = NaN
             THEN RatingLines(Head(keys), group) \o CriteriaLines(group)
             ELSE <<>>)
            \o WithoutNotesLines(df, Tail(keys))

generate_analysis_prompt(self, group_or_entity, name) ==
    LET is_group == (group_or_entity = "Group")
        assessment_data == DataFrame(get_assessment_data(self, name, is_group))
        templates == get_template_names(self, name, is_group)
        dates == get_assessment_dates(self, name, is_group)
        numbers == unique(Column(assessment_data, "Assessment Number"))
    IN IF "Group Names" \notin assessment_data.columns
       THEN Raise(KeyError("Group Names"))
       ELSE IF ~templates.ok THEN Raise(templates.error)
       ELSE IF ~dates.ok THEN Raise(dates.error)
       ELSE Return("str",
            << <<"Analyze the following assessment data for ", group_or_entity, ": ", name>>,
               <<"Group: ", Column(assessment_data, "Group Names")[1]>>,
               <<"Template Name(s): ">> \o Join(", ", templates.value),
               <<"Assessment Date(s): ">> \o Join(", ", dates.value),
               <<"Assessment Number(s): ">>
                   \o Join(", ", [i \in 1..Len(numbers) |-> ToString(numbers[i])]),
               <<"Total Number of Assessments Analyzed: ", ToString(Len(numbers))>>,
               InstructionBlock,
               <<"Capabilities with notes:">> >>
            \o WithNotesLines(assessment_data, GroupKeys(assessment_data))
            \o << <<"Capabilities without notes:">> >>
            \o WithoutNotesLines(assessment_data, GroupKeys(assessment_data))
            \o << ClosingBlock >>)

(***************************************************************************)
(* DataProcessor.__init__: self.data = data, then validation; when         *)
(* validation raises, the caller obtains no object.                        *)
(***************************************************************************)
Construct ==
    /\ ~data.object
    /\ call = NoCall
    /\ call' = [op |-> "__init__", scope |-> "", is_group |-> FALSE]
    /\ error' = _validate_data(raw)
    /\ data' = IF error' = NoError
               THEN [columns |-> raw.columns, rows |-> raw.rows, object |-> TRUE]
               ELSE NoObject
    /\ result' = NoResult
    /\ UNCHANGED <<raw, firstCall, events, response, blobs, cache>>

(***************************************************************************)
(* The caller's calls on the object it holds.  Each call leaves the frame  *)
(* the object holds and the caller's frame as the code leaves them.        *)
(***************************************************************************)
ScopeValues == {"Entity1", "Group1", "Nobody"}
ScopeKinds == {"Entity", "Group"}

\* the record of the first query after query c returned r or raised e
Track(c, r, e) ==
    IF ~firstCall.tracked THEN firstCall
    ELSE IF ~firstCall.set
    THEN [tracked |-> TRUE, set |-> TRUE, between |-> FALSE,
          call |-> c, result |-> r, error |-> e]
    ELSE IF c # firstCall.call THEN [firstCall EXCEPT !.between = TRUE]
    ELSE firstCall

\* a query that keeps only the rows of its scope in self.data
CalledFilteringInPlace(op, scope, is_group, outcome) ==
    /\ data.object
    /\ call.op \in {"none", "__init__"}
    /\ call' = [op |-> op, scope |-> scope, is_group |-> is_group]
    /\ result' = [kind |-> outcome.kind, value |-> outcome.value]
    /\ error' = outcome.error
    /\ firstCall' = Track(call', result', error')
    /\ data' = [data EXCEPT !.rows = get_assessment_data(data, scope, is_group)]
    /\ UNCHANGED <<raw, events, response, blobs, cache>>

\* a query that uses up the last row of self.data
CalledConsumingRows(op, scope, is_group, outcome) ==
    /\ data.object
    /\ call.op \in {"none", "__init__"}
    /\ call' = [op |-> op, scope |-> scope, is_group |-> is_group]
    /\ result' = [kind |-> outcome.kind, value |-> outcome.value]
    /\ error' = outcome.error
    /\ firstCall' = Track(call', result', error')
    /\ data' = [data EXCEPT !.rows = SubSeq(data.rows, 1, Len(data.rows) - 1)]
    /\ UNCHANGED <<raw, events, response, blobs, cache>>

Called(op, scope, is_group, outcome) ==
    /\ data.object
    /\ call.op \in {"none", "__init__"}
    /\ call' = [op |-> op, scope |-> scope, is_group |-> is_group]
    /\ result' = [kind |-> outcome.kind, value |-> outcome.value]
    /\ error' = outcome.error
    /\ firstCall' = Track(call', result', error')
    /\ UNCHANGED <<raw, data, events, response, blobs, cache>>

GetEntities ==
    Called("get_entities", "", FALSE, Return("list", get_entities(data)))

GetGroups ==
    Called("get_groups", "", FALSE, Return("list", get_groups(data)))

GetAssessmentData ==
    \E v \in ScopeValues, g \in BOOLEAN :
        Called("get_assessment_data", v, g,
               Return("records", get_assessment_data(data, v, g)))

GetProgress ==
    \E v \in ScopeValues, g \in BOOLEAN :
        Called("get_progress", v, g, get_progress(data, v, g))

GetCapabilityScores ==
    \E v \in ScopeValues, g \in BOOLEAN :
        Called("get_capability_scores", v, g, get_capability_scores(data, v, g))

GetCriteriaDistribution ==
    \E v \in ScopeValues, g \in BOOLEAN :
        Called("get_criteria_distribution", v, g,
               get_criteria_distribution(data, v, g))

GetNotes ==
    \E v \in ScopeValues, g \in BOOLEAN :
        Called("get_notes", v, g, get_notes(data, v, g))

GetAssessmentDates ==
    \E v \in ScopeValues, g \in BOOLEAN :
        Called("get_assessment_dates", v, g, get_assessment_dates(data, v, g))

GetTemplateNames ==
    \E v \in ScopeValues, g \in BOOLEAN :
        Called("get_template_names", v, g, get_template_names(data, v, g))

GenerateAnalysisPrompt ==
    \E kind \in ScopeKinds, v \in ScopeValues :
        Called("generate_analysis_prompt", v, kind = "Group",
               generate_analysis_prompt(data, kind, v))

\* the caller is done with what the last call returned or raised
Discard ==
    /\ call.op # "none"
    /\ call' = NoCall
    /\ result' = NoResult
    /\ error' = NoError
    /\ events' = <<>>
    /\ response' = NoResponse
    /\ UNCHANGED <<raw, data, firstCall, blobs, cache>>

Init ==
    /\ raw \in Frames
    /\ data = NoObject
    /\ call = NoCall
    /\ result = NoResult
    /\ error = NoError
    /\ firstCall = NotTracked
    /\ events = <<>>
    /\ response = NoResponse
    /\ blobs = NoBlobs
    /\ cache = NoCache

\* a session on a small frame in which the first query is kept
HistoryFrames == FramesUpTo(MaxHistoryRows)

InitHistory ==
    /\ raw \in HistoryFrames
    /\ data = NoObject
    /\ call = NoCall
    /\ result = NoResult
    /\ error = NoError
    /\ firstCall = NothingYet
    /\ events = <<>>
    /\ response = NoResponse
    /\ blobs = NoBlobs
    /\ cache = NoCache

Next ==
    \/ Construct
    \/ GetEntities
    \/ GetGroups
    \/ GetAssessmentData
    \/ GetProgress
    \/ GetCapabilityScores
    \/ GetCriteriaDistribution
    \/ GetNotes
    \/ GetAssessmentDates
    \/ GetTemplateNames
    \/ GenerateAnalysisPrompt
    \/ Discard

Spec == Init /\ [][Next]_vars

SpecHistory == InitHistory /\ [][Next]_vars

(***************************************************************************)
(* requests, as far as Llama3LLM uses it.  A reply is what requests.post   *)
(* produces: no response at all (it raises), or a response with a status   *)
(* and a body.                                                             *)
(***************************************************************************)
Statuses == {200, 400, 401, 429, 500, 503}
Contents == {"Summary1", "Summary2"}

Replies ==
    {NoResponse}
    \cup {[received |-> TRUE, status |-> s, body |-> "none", content |-> ""] :
            s \in Statuses \ {200}}
    \cup {[received |-> TRUE, status |-> 200, body |-> "choices", content |-> c] :
            c \in Contents}
    \cup {[received |-> TRUE, status |-> 200, body |-> b, content |-> ""] :
            b \in {"no_choices", "not_json"}}

\* an exception in flight: its class, its text, and whether the class
\* derives from requests.exceptions.RequestException
Exception(class, text, is_request_exception) ==
    [raised |-> TRUE, class |-> class, text |-> text,
     is_request_exception |-> is_request_exception, value |-> ""]
Returned(value) ==
    [raised |-> FALSE, class |-> "none", text |-> "",
     is_request_exception |-> FALSE, value |-> value]

\* Response.ok, which is also Response.__bool__
ok(r) == r.status < 400

\* the try block of _call: post, raise_for_status, json()[...]; json()
\* raises a RequestException only in the releases of requests that have
\* requests.exceptions.JSONDecodeError
try_post(reply, json_error_is_request_exception) ==
    IF ~reply.received
    THEN Exception("ConnectionError", "connection failed", TRUE)
    ELSE IF ~ok(reply)
    THEN Exception("HTTPError", ToString(reply.status) \o " Error", TRUE)
    ELSE IF reply.body = "not_json"
    THEN Exception("JSONDecodeError", "Expecting value",
                   json_error_is_request_exception)
    ELSE IF reply.body = "no_choices"
    THEN Exception("KeyError", "choices", FALSE)
    ELSE Returned(reply.content)

\* the except clause of _call
except_RequestException(reply, e) ==
    IF reply.received /\ ok(reply) /\ reply.status = 400
    THEN ValueError(<<"Bad request. Please check the parameters.">>)
    ELSE IF reply.received /\ ok(reply) /\ reply.status = 401
    THEN ValueError(<<"Authentication failed. Please check your API key.">>)
    ELSE IF reply.received /\ ok(reply) /\ reply.status = 429
    THEN ValueError(<<"Rate limit exceeded. Please try again later.">>)
    ELSE IF reply.received /\ ok(reply) /\ reply.status = 500
    THEN ValueError(<<"Internal server error. Please try again later.">>)
    ELSE ValueError(<<"API call failed with an unknown error: ", e.text>>)

\* one call made on a collaborator: what was called, with what, and what
\* it raised
Event(op, arg, raised) == [op |-> op, arg |-> arg, raised |-> raised]

WithEvents(outcome, evs) ==
    [ok |-> outcome.ok, kind |-> outcome.kind, value |-> outcome.value,
     error |-> outcome.error, events |-> evs]

(***************************************************************************)
(* Llama3LLM._call                                                         *)
(***************************************************************************)
_call(prompt, reply, json_error_is_request_exception) ==
    LET e == try_post(reply, json_error_is_request_exception)
        outcome ==
            IF ~e.raised THEN Return("str", e.value)
            ELSE IF e.is_request_exception
            THEN Raise(except_RequestException(reply, e))
            ELSE Raise([type |-> e.class, msg |-> <<e.text>>])
        posted ==
            Event("requests.post", prompt,
                  IF reply.received THEN NoError
                  ELSE [type |-> e.class, msg |-> <<e.text>>])
    IN WithEvents(outcome, <<posted, Event("_call", prompt, outcome.error)>>)

(***************************************************************************)
(* Summarizer.summarize                                                    *)
(***************************************************************************)
\* summarize returning the prompt it built in place of the response
SummarizeReturningPrompt(data_processor, group_or_entity, name, reply, modern) ==
    LET prompt == generate_analysis_prompt(data_processor, group_or_entity, name)
        asked == Event("generate_analysis_prompt", <<group_or_entity, name>>,
                       prompt.error)
        answer == _call(prompt.value, reply, modern)
    IN IF ~prompt.ok THEN WithEvents(prompt, <<asked>>)
       ELSE IF ~answer.ok THEN WithEvents(answer, <<asked>> \o answer.events)
       ELSE WithEvents(prompt, <<asked>> \o answer.events)

\* summarize returning an empty summary when anything fails
SummarizeSwallowingErrors(data_processor, group_or_entity, name, reply, modern) ==
    LET prompt == generate_analysis_prompt(data_processor, group_or_entity, name)
        asked == Event("generate_analysis_prompt", <<group_or_entity, name>>,
                       prompt.error)
        answer == _call(prompt.value, reply, modern)
    IN IF ~prompt.ok THEN WithEvents(Return("str", ""), <<asked>>)
       ELSE IF ~answer.ok
       THEN WithEvents(Return("str", ""), <<asked>> \o answer.events)
       ELSE WithEvents(answer, <<asked>> \o answer.events)

summarize(data_processor, group_or_entity, name, reply, modern) ==
    LET prompt == generate_analysis_prompt(data_processor, group_or_entity, name)
        asked == Event("generate_analysis_prompt", <<group_or_entity, name>>,
                       prompt.error)
        answer == _call(prompt.value, reply, modern)
    IN IF ~prompt.ok THEN WithEvents(prompt, <<asked>>)
       ELSE WithEvents(answer, <<asked>> \o answer.events)

(***************************************************************************)
(* SentimentAnalyzer.analyze                                               *)
(***************************************************************************)
Texts == {"Note1", ""}

analyze(text, reply, modern) ==
    _call(<< <<"Analyze the sentiment of the following text and categorize it ",
               "as positive, negative, or neutral. Provide a brief explanation ",
               "for your categorization:">>,
             <<>>,
             <<text>> >>, reply, modern)

\* a call that reaches the language model: records the call, what it
\* returned or raised, the calls it made and the reply it got
Answered(op, scope, is_group, reply, outcome) ==
    /\ call.op \in {"none", "__init__"}
    /\ call' = [op |-> op, scope |-> scope, is_group |-> is_group]
    /\ result' = [kind |-> outcome.kind, value |-> outcome.value]
    /\ error' = outcome.error
    /\ events' = outcome.events
    /\ response' = IF \E i \in 1..Len(outcome.events) :
                          outcome.events[i].op = "requests.post"
                   THEN reply ELSE NoResponse
    /\ UNCHANGED <<raw, data, firstCall, blobs, cache>>

Summarize ==
    /\ data.object
    /\ \E kind \in ScopeKinds, name \in ScopeValues, reply \in Replies,
          modern \in BOOLEAN :
            Answered("summarize", name, kind = "Group", reply,
                     summarize(data, kind, name, reply, modern))

Analyze ==
    \E text \in Texts, reply \in Replies, modern \in BOOLEAN :
        Answered("analyze", text, FALSE, reply, analyze(text, reply, modern))

NextSummarize == Construct \/ Summarize \/ Analyze \/ Discard

\* a session on a small frame that asks for summaries
InitSummarize ==
    /\ raw \in HistoryFrames
    /\ data = NoObject
    /\ call = NoCall
    /\ result = NoResult
    /\ error = NoError
    /\ firstCall = NotTracked
    /\ events = <<>>
    /\ response = NoResponse
    /\ blobs = NoBlobs
    /\ cache = NoCache

SpecSummarize == InitSummarize /\ [][NextSummarize]_vars

(***************************************************************************)
(* Blob storage and Excel, as far as FileHandler uses them.                *)
(***************************************************************************)
EmptyCell == "<empty>"

\* the workbook a user saved from rows: an empty note is an empty cell
ToCell(col, v) ==
    IF col \in {"Notes", "Comments"} /\ v \in {NaN, ""} THEN EmptyCell ELSE v

Workbook(ss) ==
    [exists |-> TRUE, workbook |-> TRUE, header |-> required_columns,
     cells |-> [i \in 1..Len(ss) |->
                  [col \in RequiredSet |-> ToCell(col, RowOver(RequiredSet, ss[i])[col])]]]

Workbooks == {NotExcel} \cup {Workbook(ss) : ss \in SeqsUpTo(RowSpecs, MaxSheetRows)}

\* the uploaded file objects: a name and the bytes read() gives
Files == {[name |-> n, contents |-> w] : n \in FileNames, w \in Workbooks}

\* pd.read_excel: the first row names the columns, an empty cell reads as NaN;
\* bytes that are no workbook raise
FromCell(col, v) ==
    IF col \in {"Notes", "Comments"} /\ v = EmptyCell THEN NaN ELSE v

read_excel(excel_data) ==
    IF ~excel_data.workbook
    THEN Raise(ValueError(<<"Excel file format cannot be determined, ",
                            "you must specify an engine manually.">>))
    ELSE Return("DataFrame",
            [columns |-> Range(excel_data.header),
             rows |-> [i \in 1..Len(excel_data.cells) |->
                         [col \in Range(excel_data.header) |->
                             FromCell(col, excel_data.cells[i][col])]]])

\* azure.core.exceptions: each class and its base classes, nearest first
Bases(class) ==
    CASE class = "AzureError" -> <<"AzureError", "Exception">>
      [] class = "ServiceRequestError" ->
            <<"ServiceRequestError", "AzureError", "Exception">>
      [] class = "HttpResponseError" ->
            <<"HttpResponseError", "AzureError", "Exception">>
      [] class = "ResourceNotFoundError" ->
            <<"ResourceNotFoundError", "HttpResponseError", "AzureError", "Exception">>
      [] class = "ClientAuthenticationError" ->
            <<"ClientAuthenticationError", "HttpResponseError", "AzureError", "Exception">>
      [] OTHER -> <<class, "Exception">>

IsInstance(class, base) == Contains(Bases(class), base)

\* what can go wrong between the client and the service while a blob is
\* fetched, whether or not the blob exists
Faults == {"none", "ServiceRequestError", "HttpResponseError",
           "ClientAuthenticationError"}

IOError(msg) == [type |-> "OSError", msg |-> msg]
FileNotFoundError(msg) == [type |-> "FileNotFoundError", msg |-> msg]

\* blob_client.download_blob().readall()
download_blob(store, file_name, fault) ==
    IF fault # "none" THEN Raise([type |-> fault, msg |-> <<fault>>])
    ELSE IF ~store[file_name].exists
    THEN Raise([type |-> "ResourceNotFoundError", msg |-> <<"BlobNotFound">>])
    ELSE Return("bytes", store[file_name])

(***************************************************************************)
(* FileHandler.read_excel_from_blob, FileHandler.upload_to_blob_storage    *)
(***************************************************************************)
\* read_excel_from_blob with the clause for AzureError placed first
ReadExcelAzureErrorFirst(store, file_name, fault) ==
    LET blob_data == download_blob(store, file_name, fault)
        e == blob_data.error
        outcome ==
            IF blob_data.ok THEN read_excel(blob_data.value)
            ELSE IF IsInstance(e.type, "AzureError")
            THEN Raise(IOError(<<"An error occurred while reading the file from blob storage: ">>
                               \o e.msg))
            ELSE IF IsInstance(e.type, "ResourceNotFoundError")
            THEN Raise(FileNotFoundError(<<"The file ", file_name,
                                           " was not found in the blob storage.">>))
            ELSE blob_data
    IN WithEvents(outcome, <<Event("download_blob", <<file_name>>, e)>>)

read_excel_from_blob(store, file_name, fault) ==
    LET blob_data == download_blob(store, file_name, fault)
        e == blob_data.error
        outcome ==
            IF blob_data.ok THEN read_excel(blob_data.value)
            ELSE IF IsInstance(e.type, "ResourceNotFoundError")
            THEN Raise(FileNotFoundError(<<"The file ", file_name,
                                           " was not found in the blob storage.">>))
            ELSE IF IsInstance(e.type, "AzureError")
            THEN Raise(IOError(<<"An error occurred while reading the file from blob storage: ">>
                               \o e.msg))
            ELSE blob_data
    IN WithEvents(outcome, <<Event("download_blob", <<file_name>>, e)>>)

UploadToBlobStorage ==
    /\ call.op = "none"
    /\ \E file \in Files :
        /\ blobs' = [blobs EXCEPT ![file.name] = file.contents]
        /\ call' = [op |-> "upload_to_blob_storage", scope |-> file.name,
                    is_group |-> FALSE]
        /\ result' = [kind |-> "str", value |-> file.name]
        /\ error' = NoError
        /\ events' = <<Event("upload_blob", <<file.name>>, NoError)>>
    /\ UNCHANGED <<raw, data, firstCall, response, cache>>

ReadExcelFromBlob ==
    /\ call.op = "none"
    /\ \E file_name \in FileNames, fault \in Faults :
        LET outcome == read_excel_from_blob(blobs, file_name, fault)
        IN /\ call' = [op |-> "read_excel_from_blob", scope |-> file_name,
                       is_group |-> FALSE]
           /\ result' = [kind |-> outcome.kind, value |-> outcome.value]
           /\ error' = outcome.error
           /\ events' = outcome.events
    /\ UNCHANGED <<raw, data, firstCall, response, blobs, cache>>

\* a session that uploads files and reads them back; no frame is supplied
\* from elsewhere
InitFiles ==
    /\ raw = [columns |-> {}, rows |-> <<>>]
    /\ data = NoObject
    /\ call = NoCall
    /\ result = NoResult
    /\ error = NoError
    /\ firstCall = NotTracked
    /\ events = <<>>
    /\ response = NoResponse
    /\ blobs = NoBlobs
    /\ cache = NoCache

NextFiles == UploadToBlobStorage \/ ReadExcelFromBlob \/ Discard

SpecFiles == InitFiles /\ [][NextFiles]_vars

(***************************************************************************)
(* main.py: one run of main() for an uploaded file, with the functions     *)
(* that st.cache_data wraps.  st.cache_data keys a stored value by the     *)
(* function and the hash of its arguments, leaves out of the hash every    *)
(* parameter whose name starts with an underscore, and stores nothing      *)
(* when the function raises.                                               *)
(***************************************************************************)
UploadNames == {"a.csv", "b.csv"}

\* the bytes of a CSV file holding these rows: an empty note is an empty field
CsvFile(ss) == Workbook(ss)

\* the files a user picks: two datasets with the same entity and group that
\* differ in the rating, and a file with no bytes
UploadedFiles ==
    {[name |-> n, contents |-> c] :
        n \in UploadNames,
        c \in {CsvFile(<< <<"Entity1", "CapabilityB", 2, 2, NaN>> >>),
               CsvFile(<< <<"Entity1", "CapabilityB", 2, 5, NaN>> >>),
               NotExcel}}

\* pd.read_csv: the first line names the columns, an empty field reads as
\* NaN; a file with no bytes raises
read_csv(csv_data) ==
    IF ~csv_data.workbook
    THEN Raise([type |-> "EmptyDataError",
                msg |-> <<"No columns to parse from file">>])
    ELSE Return("DataFrame",
            [columns |-> Range(csv_data.header),
             rows |-> [i \in 1..Len(csv_data.cells) |->
                         [col \in Range(csv_data.header) |->
                             FromCell(col, csv_data.cells[i][col])]]])

\* DataProcessor(data): the object, or what _validate_data raises
DataProcessor(df) ==
    IF _validate_data(df) = NoError
    THEN Return("DataProcessor",
                [columns |-> df.columns, rows |-> df.rows, object |-> TRUE])
    ELSE Raise(_validate_data(df))

\* the body of load_and_process_data
load_and_process_data(store, file_name) ==
    LET blob_data == download_blob(store, file_name, "none")
        df == read_csv(blob_data.value)
    IN IF ~blob_data.ok THEN blob_data
       ELSE IF ~df.ok THEN df
       ELSE DataProcessor(df.value)

\* a mapping with one more key
Put(f, key, value) ==
    [k \in DOMAIN f \cup {key} |-> IF k = key THEN value ELSE f[k]]

\* the views main() draws before the summary: the first that raises, or the
\* last one's value
views(processor, selected, is_group) ==
    LET progress == get_progress(processor, selected, is_group)
        capability_scores == get_capability_scores(processor, selected, is_group)
        criteria_distribution ==
            get_criteria_distribution(processor, selected, is_group)
    IN IF ~progress.ok THEN progress
       ELSE IF ~capability_scores.ok THEN capability_scores
       ELSE criteria_distribution

\* main(), up to st.write(summary) or st.error(...), for one uploaded file,
\* the analysis type and the option the user picks among those offered, and
\* the reply the language model gives if it is asked.  A stored summary carries the prompt it was
\* generated from, kept only to tell which dataset a summary shown came from.
Main(uploaded_file, analysis_type, selected, reply) ==
    LET file_name == uploaded_file.name
        store == [blobs EXCEPT ![file_name] = uploaded_file.contents]
        uploaded == Event("upload_to_blob_storage", <<file_name>>, NoError)
        load_hit == file_name \in DOMAIN cache.load_and_process_data
        loaded == IF load_hit
                  THEN Return("DataProcessor", cache.load_and_process_data[file_name])
                  ELSE load_and_process_data(store, file_name)
        load_cache == IF ~load_hit /\ loaded.ok
                      THEN Put(cache.load_and_process_data, file_name, loaded.value)
                      ELSE cache.load_and_process_data
        load_event == Event("load_and_process_data", <<file_name>>, loaded.error)
        processor == loaded.value
        is_group == (analysis_type = "Group")
        options == IF is_group THEN get_groups(processor) ELSE get_entities(processor)
        drawn == views(processor, selected, is_group)
        key == <<analysis_type, selected>>
        summary_hit == key \in DOMAIN cache.summarize_data
        prompt == generate_analysis_prompt(processor, analysis_type, selected)
        summary == IF summary_hit
                   THEN WithEvents(Return("str", cache.summarize_data[key].value), <<>>)
                   ELSE summarize(processor, analysis_type, selected, reply, TRUE)
        summary_cache == IF ~summary_hit /\ summary.ok
                         THEN Put(cache.summarize_data, key,
                                  [value |-> summary.value, prompt |-> prompt.value])
                         ELSE cache.summarize_data
        summary_event == Event("summarize_data", key, summary.error)
    IN /\ blobs' = store
       /\ loaded.ok => Contains(options, selected)
       /\ IF ~loaded.ok
          THEN /\ call' = [op |-> "main", scope |-> "", is_group |-> is_group]
               /\ data' = NoObject
               /\ result' = NoResult
               /\ error' = loaded.error
               /\ events' = <<uploaded, load_event>>
               /\ response' = NoResponse
               /\ cache' = [cache EXCEPT !.load_and_process_data = load_cache]
          ELSE IF ~drawn.ok
          THEN /\ call' = [op |-> "main", scope |-> selected, is_group |-> is_group]
               /\ data' = processor
               /\ result' = NoResult
               /\ error' = drawn.error
               /\ events' = <<uploaded, load_event>>
               /\ response' = NoResponse
               /\ cache' = [cache EXCEPT !.load_and_process_data = load_cache]
          ELSE /\ call' = [op |-> "main", scope |-> selected, is_group |-> is_group]
               /\ data' = processor
               /\ result' = [kind |-> summary.kind, value |-> summary.value]
               /\ error' = summary.error
               /\ events' = <<uploaded, load_event, summary_event>> \o summary.events
               /\ response' = IF \E i \in 1..Len(summary.events) :
                                     summary.events[i].op = "requests.post"
                              THEN reply ELSE NoResponse
               /\ cache' = [load_and_process_data |-> load_cache,
                            summarize_data |-> summary_cache]
       /\ UNCHANGED <<raw, firstCall>>

\* the options a select box can offer for the uploaded datasets
Options == {"Entity1", "Group1"}

\* the replies of the language model to a summary request: either content,
\* or a server error
MainReplies ==
    {r \in Replies : r.received /\ r.status \in {200, 500}
                                /\ r.body \in {"choices", "none"}}

RunMain ==
    /\ call.op = "none"
    /\ \E uploaded_file \in UploadedFiles, analysis_type \in ScopeKinds,
          selected \in Options, reply \in MainReplies :
            Main(uploaded_file, analysis_type, selected, reply)

\* the application before any file is uploaded
InitMain ==
    /\ raw = [columns |-> {}, rows |-> <<>>]
    /\ data = NoObject
    /\ call = NoCall
    /\ result = NoResult
    /\ error = NoError
    /\ firstCall = NotTracked
    /\ events = <<>>
    /\ response = NoResponse
    /\ blobs = [n \in UploadNames |-> Absent]
    /\ cache = NoCache

NextMain == RunMain \/ Discard

SpecMain == InitMain /\ [][NextMain]_vars

(***************************************************************************)
(* Properties.                                                             *)
(***************************************************************************)
ScopeColumn(is_group) == IF is_group THEN "Group Names" ELSE "Entity Name"

\* the positions of the rows of the held frame that belong to the scope of
\* the last call
ScopeIndexes ==
    {i \in 1..Len(data.rows) : data.rows[i][ScopeColumn(call.is_group)] = call.scope}

Views ==
    {"get_assessment_data", "get_progress", "get_capability_scores",
     "get_criteria_distribution", "get_notes", "get_assessment_dates",
     "get_template_names"}

MissingSet == RequiredSet \ raw.columns

C2_CommentsAccepted ==
    (/\ call.op = "__init__"
     /\ "Comments" \in raw.columns
     /\ MissingSet = {"Notes"})
    => /\ error = NoError
       /\ data.object
       /\ "Notes" \in data.columns
       /\ "Comments" \notin data.columns
       /\ Len(data.rows) = Len(raw.rows)
       /\ \A i \in 1..Len(raw.rows) : data.rows[i]["Notes"] = raw.rows[i]["Comments"]

\* C3: a frame with neither a Notes nor a Comments column fails validation
\* with the message that names both as missing.
C3_MissingBothMessage ==
    (/\ call.op = "__init__"
     /\ "Notes" \notin raw.columns
     /\ "Comments" \notin raw.columns)
    => /\ error.type = "ValueError"
       /\ Contains(error.msg, "Missing both 'Notes' and 'Comments' columns")

IsEmpty(value) == DOMAIN value = {}

\* C4: for a scope that matches no row, each of the seven views returns an
\* empty result and raises nothing.
C4_EmptyScopeViewsEmpty ==
    (call.op \in Views /\ ScopeIndexes = {})
    => error = NoError /\ result.kind # "none" /\ IsEmpty(result.value)

\* C5: generate_analysis_prompt on a scope that matches no row fails with
\* EmptyScopeError and returns nothing, and no view fails on such a scope.
C5_EmptyScopeError ==
    /\ (call.op = "generate_analysis_prompt" /\ ScopeIndexes = {})
        => error.type = "EmptyScopeError" /\ result = NoResult
    /\ (call.op \in Views /\ ScopeIndexes = {}) => error = NoError

\* the k-th smallest member of a set of positions
KthIndex(S, k) == CHOOSE i \in S : Cardinality({j \in S : j < i}) = k - 1

\* the position of the first occurrence of v in s
FirstIndex(s, v) == CHOOSE k \in 1..Len(s) : s[k] = v /\ \A m \in 1..(k - 1) : s[m] # v

\* out lists each distinct value of src once, in order of first occurrence
FirstOccurrenceOrder(out, src) ==
    /\ Range(out) = Range(src)
    /\ \A i, j \in 1..Len(out) :
        i < j => out[i] # out[j] /\ FirstIndex(src, out[i]) < FirstIndex(src, out[j])

\* the cells of a column in the rows of the scope of the last call, row order
ScopeCells(col) ==
    [k \in 1..Cardinality(ScopeIndexes) |-> data.rows[KthIndex(ScopeIndexes, k)][col]]

\* C6: get_entities and get_groups list each distinct name of the held frame
\* once, in order of first occurrence; for a scope with rows,
\* get_assessment_dates and get_template_names do so for the scope's rows.
C6_UniqueFirstOccurrence ==
    /\ call.op = "get_entities" =>
        /\ error = NoError
        /\ FirstOccurrenceOrder(result.value,
               [i \in 1..Len(data.rows) |-> data.rows[i]["Entity Name"]])
    /\ call.op = "get_groups" =>
        /\ error = NoError
        /\ FirstOccurrenceOrder(result.value,
               [i \in 1..Len(data.rows) |-> data.rows[i]["Group Names"]])
    /\ (call.op = "get_assessment_dates" /\ ScopeIndexes # {}) =>
        /\ error = NoError
        /\ FirstOccurrenceOrder(result.value, ScopeCells("Assessment Date"))
    /\ (call.op = "get_template_names" /\ ScopeIndexes # {}) =>
        /\ error = NoError
        /\ FirstOccurrenceOrder(result.value, ScopeCells("Template Name"))

C6_Witness ==
    /\ call.op = "get_entities"
    /\ Len(data.rows) = 3
    /\ data.rows[1]["Entity Name"] = "Entity2"
    /\ data.rows[2]["Entity Name"] = "Entity1"
    /\ data.rows[3]["Entity Name"] = "Entity2"
    /\ result.value = <<"Entity2", "Entity1">>

\* C7: get_assessment_data returns exactly the rows whose entity (or group,
\* when is_group) equals the scope value: each once, unchanged, with every
\* required field, in the order of the held frame.
C7_FilterExact ==
    call.op = "get_assessment_data" =>
        /\ error = NoError
        /\ Len(result.value) = Cardinality(ScopeIndexes)
        /\ \A k \in 1..Len(result.value) :
            /\ result.value[k] = data.rows[KthIndex(ScopeIndexes, k)]
            /\ RequiredSet \subseteq DOMAIN result.value[k]

C7_Witness ==
    /\ call.op = "get_assessment_data"
    /\ call.is_group
    /\ call.scope = "Group1"
    /\ Len(data.rows) = 3
    /\ data.rows[1]["Entity Name"] = "Entity1"
    /\ data.rows[2]["Entity Name"] = "Entity3"
    /\ data.rows[3]["Entity Name"] = "Entity2"
    /\ result.value = <<data.rows[1], data.rows[3]>>

\* the values of a column over the rows of the scope of the last call
ScopeKeys(col) == {data.rows[i][col] : i \in ScopeIndexes}

\* C8: for every scope the keys of get_progress, get_capability_scores and
\* get_criteria_distribution are the distinct assessment numbers,
\* capability names and criteria stages of the scope's rows, each once.
C8_KeySets ==
    /\ call.op = "get_progress" =>
        /\ error = NoError
        /\ {result.value[k][1] : k \in 1..Len(result.value)} = ScopeKeys("Assessment Number")
        /\ Len(result.value) = Cardinality(ScopeKeys("Assessment Number"))
    /\ call.op = "get_capability_scores" =>
        /\ error = NoError
        /\ DOMAIN result.value = ScopeKeys("Capability Name")
    /\ call.op = "get_criteria_distribution" =>
        /\ error = NoError
        /\ DOMAIN result.value = ScopeKeys("Criteria Stage")

\* the rows of the scope of the last call whose column col holds key
KeyIndexes(col, key) == {i \in ScopeIndexes : data.rows[i][col] = key}

RECURSIVE RatingTotal(_)
RatingTotal(S) ==
    IF S = {} THEN 0
    ELSE LET i == CHOOSE x \in S : TRUE
         IN data.rows[i]["Rating"] + RatingTotal(S \ {i})

\* the fraction m is the mean of the ratings of the rows at positions S
IsMeanOf(m, S) == S # {} /\ m[2] > 0 /\ m[1] * Cardinality(S) = RatingTotal(S) * m[2]

\* C9: for a scope with rows, get_progress maps each assessment number of
\* the scope to the mean rating of the scope's rows with that number, by
\* ascending number, and get_capability_scores maps each capability of the
\* scope to the mean rating of the scope's rows with that capability.
C9_Means ==
    /\ (call.op = "get_progress" /\ ScopeIndexes # {}) =>
        /\ error = NoError
        /\ {result.value[k][1] : k \in 1..Len(result.value)} = ScopeKeys("Assessment Number")
        /\ \A j, k \in 1..Len(result.value) :
            j < k => result.value[j][1] < result.value[k][1]
        /\ \A k \in 1..Len(result.value) :
            IsMeanOf(result.value[k][2],
                     KeyIndexes("Assessment Number", result.value[k][1]))
    /\ (call.op = "get_capability_scores" /\ ScopeIndexes # {}) =>
        /\ error = NoError
        /\ DOMAIN result.value = ScopeKeys("Capability Name")
        /\ \A c \in DOMAIN result.value :
            IsMeanOf(result.value[c], KeyIndexes("Capability Name", c))

C9_Witness ==
    /\ call.op = "get_progress"
    /\ call.scope = "Entity1"
    /\ ~call.is_group
    /\ Len(data.rows) = 3
    /\ \A i \in 1..3 : data.rows[i]["Entity Name"] = "Entity1"
    /\ data.rows[1]["Assessment Number"] = 2 /\ data.rows[1]["Rating"] = 5
    /\ data.rows[2]["Assessment Number"] = 1 /\ data.rows[2]["Rating"] = 2
    /\ data.rows[3]["Assessment Number"] = 2 /\ data.rows[3]["Rating"] = 2
    /\ result.value = << <<1, <<2, 1>> >>, <<2, <<7, 2>> >> >>

RECURSIVE CountTotal(_, _)
CountTotal(f, S) ==
    IF S = {} THEN 0
    ELSE LET k == CHOOSE x \in S : TRUE
         IN f[k] + CountTotal(f, S \ {k})

\* C10: for a scope with rows, get_criteria_distribution maps each criteria
\* stage of the scope to the number of the scope's rows with that stage, and
\* the counts add up to the number of rows of the scope.
C10_StageCounts ==
    (call.op = "get_criteria_distribution" /\ ScopeIndexes # {}) =>
        /\ error = NoError
        /\ DOMAIN result.value = ScopeKeys("Criteria Stage")
        /\ \A s \in DOMAIN result.value :
            result.value[s] = Cardinality(KeyIndexes("Criteria Stage", s))
        /\ CountTotal(result.value, DOMAIN result.value) = Cardinality(ScopeIndexes)

C10_Witness ==
    /\ call.op = "get_criteria_distribution"
    /\ call.scope = "Group1"
    /\ call.is_group
    /\ Len(data.rows) = 3
    /\ data.rows[1]["Entity Name"] = "Entity1" /\ data.rows[1]["Criteria Stage"] = "Stage2"
    /\ data.rows[2]["Entity Name"] = "Entity3" /\ data.rows[2]["Criteria Stage"] = "Stage1"
    /\ data.rows[3]["Entity Name"] = "Entity2" /\ data.rows[3]["Criteria Stage"] = "Stage1"
    /\ result.value = ("Stage1" :> 1) @@ ("Stage2" :> 1)

\* the note cells of the rows of the scope that carry a note: neither a
\* missing cell nor an empty string
ScopeNotes == SelectSeq(ScopeCells("Notes"), LAMBDA v : v # NaN /\ v # "")

\* C11: for a scope with rows, get_notes returns the notes of the scope's
\* rows in row order, one per row that has a note, leaving out every row
\* whose note is missing or the empty string.
C11_NotesExcludeEmpty ==
    (call.op = "get_notes" /\ ScopeIndexes # {}) =>
        error = NoError /\ result.value = ScopeNotes

(***************************************************************************)
(* Reading a prompt: the positions of its section headings and of the      *)
(* lines that open a capability's entry.                                   *)
(***************************************************************************)
PromptReturned == call.op = "generate_analysis_prompt" /\ error = NoError

LineIndex(line) == CHOOSE i \in 1..Len(result.value) : result.value[i] = line

WithHeading == LineIndex(<<"Capabilities with notes:">>)
WithoutHeading == LineIndex(<<"Capabilities without notes:">>)

\* where the entries of capability c open in the prompt
EntryIndexes(c) ==
    {i \in 1..Len(result.value) : result.value[i] = <<"Capability: ", c>>}

InWithNotes(c) ==
    \E i \in EntryIndexes(c) : WithHeading < i /\ i < WithoutHeading

InWithoutNotes(c) == \E i \in EntryIndexes(c) : WithoutHeading < i

HasNote(c) ==
    \E i \in KeyIndexes("Capability Name", c) :
        data.rows[i]["Notes"] # NaN /\ data.rows[i]["Notes"] # ""

\* C12: in a prompt every capability of the scope has exactly one entry; the
\* entry is in the section with notes iff some row of the capability in the
\* scope has a non-empty note, otherwise in the section without notes, and
\* the section with notes comes first.
C12_SectionPartition ==
    PromptReturned =>
        /\ WithHeading < WithoutHeading
        /\ \A c \in Capabilities :
            Cardinality(EntryIndexes(c))
                = (IF c \in ScopeKeys("Capability Name") THEN 1 ELSE 0)
        /\ \A c \in ScopeKeys("Capability Name") :
            /\ InWithNotes(c) <=> HasNote(c)
            /\ InWithoutNotes(c) <=> ~HasNote(c)

\* the last row of capability c among the rows of the scope
LastRowOf(c) ==
    data.rows[CHOOSE i \in KeyIndexes("Capability Name", c) :
                  \A j \in KeyIndexes("Capability Name", c) : j <= i]

\* the text of a rating with two decimals
RatingText(r) == IF r = 2 THEN "2.00" ELSE IF r = 5 THEN "5.00" ELSE "?"

\* C13: in a prompt, the line after each capability's opening line gives as
\* most recent rating the rating of the last row of that capability in the
\* scope, in row order, whatever that row's assessment number, date or note.
C13_MostRecentIsLastRow ==
    PromptReturned =>
        \A c \in ScopeKeys("Capability Name") :
            /\ EntryIndexes(c) # {}
            /\ \A i \in EntryIndexes(c) :
                result.value[i + 1]
                    = <<"Most Recent Rating: ", RatingText(LastRowOf(c)["Rating"])>>

C13_Witness ==
    /\ PromptReturned
    /\ call.scope = "Entity1"
    /\ ~call.is_group
    /\ Len(data.rows) = 3
    /\ \A i \in 1..3 :
        /\ data.rows[i]["Entity Name"] = "Entity1"
        /\ data.rows[i]["Capability Name"] = "CapabilityB"
    /\ data.rows[1]["Notes"] = "Note1" /\ data.rows[1]["Rating"] = 2
    /\ data.rows[2]["Assessment Number"] = 2 /\ data.rows[2]["Rating"] = 5
    /\ data.rows[3]["Assessment Number"] = 1 /\ data.rows[3]["Rating"] = 2
    /\ data.rows[3]["Notes"] = NaN
    /\ InWithNotes("CapabilityB")
    /\ Contains(result.value, <<"Most Recent Rating: ", "2.00">>)

\* the position in the held frame of the first row of capability c in the scope
FirstRowIndex(c) ==
    CHOOSE i \in KeyIndexes("Capability Name", c) :
        \A j \in KeyIndexes("Capability Name", c) : i <= j

EntryIndex(c) == CHOOSE i \in EntryIndexes(c) : TRUE

\* C14: within each section of a prompt the capabilities appear in the order
\* in which their names first occur in the rows of the scope.
C14_FirstOccurrenceSections ==
    PromptReturned =>
        \A a, b \in ScopeKeys("Capability Name") :
            (/\ a # b
             /\ EntryIndexes(a) # {} /\ EntryIndexes(b) # {}
             /\ InWithNotes(a) <=> InWithNotes(b))
            => (EntryIndex(a) < EntryIndex(b) <=> FirstRowIndex(a) < FirstRowIndex(b))

\* C15: a query repeated with the same arguments on the same processor
\* returns (or raises) the same as the first time, whatever other queries
\* ran in between; so does generate_analysis_prompt.
C15_RepeatedCallSameResult ==
    (firstCall.set /\ call = firstCall.call) =>
        result = firstCall.result /\ error = firstCall.error

C15_Witness ==
    /\ firstCall.set
    /\ firstCall.between
    /\ call = firstCall.call
    /\ call.op = "generate_analysis_prompt"
    /\ error = NoError
    /\ Len(data.rows) = 1

\* C16: construction leaves the caller's frame as it was and the processor
\* holds exactly its rows; after that no call, returning or raising, changes
\* the rows the processor holds, their cells or their order.
C16_CollectionUnchanged ==
    [][/\ raw' = raw
       /\ data.object => data' = data
       /\ data'.object => data'.rows = raw.rows /\ data'.columns = raw.columns]_vars

C16_Witness ==
    /\ call.op = "generate_analysis_prompt"
    /\ call.scope = "Nobody"
    /\ error.type = "KeyError"
    /\ Len(raw.rows) = 3
    /\ data.rows = raw.rows

\* the kind of scope the last call named
CallKind == IF call.is_group THEN "Group" ELSE "Entity"

\* the calls of the last call on one collaborator, in order
EventsOf(op) == SelectSeq(events, LAMBDA ev : ev.op = op)

\* the calls of the last call on the processor and on the language model
CollaboratorCalls == SelectSeq(events, LAMBDA ev : ev.op # "requests.post")

\* C17: a summarize that returns has made exactly one call of
\* generate_analysis_prompt(kind, name), then exactly one call of the
\* language model with exactly the prompt that call returned, and returns
\* the model's response string as it is.
C17_SummarizeCallsInOrder ==
    (call.op = "summarize" /\ error = NoError) =>
        LET prompt == generate_analysis_prompt(data, CallKind, call.scope)
        IN /\ prompt.ok
           /\ CollaboratorCalls =
                <<Event("generate_analysis_prompt", <<CallKind, call.scope>>, NoError),
                  Event("_call", prompt.value, NoError)>>
           /\ EventsOf("requests.post") =
                <<Event("requests.post", prompt.value, NoError)>>
           /\ result = [kind |-> "str", value |-> response.content]

C17_Witness ==
    /\ call.op = "summarize"
    /\ error = NoError
    /\ result.value = "Summary2"
    /\ Len(data.rows) = 1
    /\ Len(events) = 3

\* the call of the language model made by the last call failed
LlmFailed ==
    /\ EventsOf("_call") # <<>>
    /\ EventsOf("_call")[1].raised # NoError

\* the text of the error for a response with status s
CategoryText(s) ==
    CASE s = 400 -> <<"Bad request. Please check the parameters.">>
      [] s = 401 -> <<"Authentication failed. Please check your API key.">>
      [] s = 429 -> <<"Rate limit exceeded. Please try again later.">>
      [] s = 500 -> <<"Internal server error. Please try again later.">>
      [] OTHER -> <<"API call failed with an unknown error: ">>

\* C18: when the call of the language model fails, the caller gets the
\* error of the category of its cause: bad request for status 400,
\* authentication failed for 401, rate limit exceeded for 429, internal
\* server error for 500, unknown error only for no response or another
\* status; one HTTP request was made and nothing is returned.
C18_FailureCategories ==
    LlmFailed =>
        /\ error.type = "ValueError"
        /\ error.msg[1] = CategoryText(response.status)[1]
        /\ Len(EventsOf("requests.post")) = 1
        /\ result = NoResult

\* C20: a summarize whose prompt generation fails never calls the language
\* model; a summarize makes at most one call of the language model; when
\* either fails the caller gets that very error and no summary.
C20_SummarizeAllOrNothing ==
    call.op = "summarize" =>
        LET asked == EventsOf("generate_analysis_prompt")
            answered == EventsOf("_call")
        IN /\ Len(asked) = 1
           /\ Len(answered) <= 1
           /\ asked[1].raised # NoError =>
                /\ answered = <<>>
                /\ EventsOf("requests.post") = <<>>
                /\ error = asked[1].raised
                /\ result = NoResult
           /\ (answered # <<>> /\ answered[1].raised # NoError) =>
                /\ error = answered[1].raised
                /\ result = NoResult
           /\ error # NoError =>
                \/ asked[1].raised # NoError
                \/ answered # <<>> /\ answered[1].raised # NoError

C20_Witness ==
    /\ call.op = "summarize"
    /\ LlmFailed
    /\ response.received
    /\ response.status = 503
    /\ error.type = "ValueError"
    /\ result = NoResult

\* the storage exception the last read met, if any
StorageError == events[1].raised

\* C19: read_excel_from_blob turns a storage failure into one error of its
\* own: ResourceNotFoundError (a blob that does not exist), though a kind of
\* AzureError, always into FileNotFoundError and never into IOError; every
\* other AzureError into IOError; no exception of these classes escapes;
\* and when storage delivers a workbook the parsed table is returned.
C19_StorageErrorsMapped ==
    call.op = "read_excel_from_blob" =>
        /\ ~IsInstance(error.type, "AzureError")
        /\ IsInstance(StorageError.type, "ResourceNotFoundError") =>
              error.type = "FileNotFoundError" /\ result = NoResult
        /\ (StorageError = NoError) = blobs[call.scope].exists
              \/ IsInstance(StorageError.type, "AzureError")
        /\ (/\ IsInstance(StorageError.type, "AzureError")
            /\ ~IsInstance(StorageError.type, "ResourceNotFoundError")) =>
              error.type = "OSError" /\ result = NoResult
        /\ (StorageError = NoError /\ blobs[call.scope].workbook) =>
              /\ error = NoError
              /\ result.kind = "DataFrame"
              /\ result.value.columns = Range(blobs[call.scope].header)
              /\ Len(result.value.rows) = Len(blobs[call.scope].cells)
              /\ \A i \in 1..Len(result.value.rows) :
                    \A col \in result.value.columns \ {"Notes", "Comments"} :
                        result.value.rows[i][col] = blobs[call.scope].cells[i][col]
              /\ \A i \in 1..Len(result.value.rows) :
                    result.value.rows[i]["Notes"] =
                        (IF blobs[call.scope].cells[i]["Notes"] = EmptyCell
                         THEN NaN ELSE blobs[call.scope].cells[i]["Notes"])

C19_Witness ==
    /\ call.op = "read_excel_from_blob"
    /\ ~blobs[call.scope].exists
    /\ \E n \in FileNames : blobs[n].workbook /\ Len(blobs[n].cells) = 1
    /\ StorageError.type = "ResourceNotFoundError"
    /\ error.type = "FileNotFoundError"

\* the name of the file the last run of main() uploaded
UploadedName == events[1].arg[1]

\* the processor built from what is stored under that name now
LatestProcessor == load_and_process_data(blobs, UploadedName)

\* C21: what a run of main() shows comes from the dataset uploaded in that
\* run: the processor it holds is the one built from the file just
\* uploaded, and a summary it shows was generated from the prompt of that
\* processor for the selected scope, whatever was uploaded and requested
\* before, under the same file name or another.
C21_ShownFromLatestUpload ==
    (call.op = "main" /\ data.object) =>
        /\ LatestProcessor.ok
        /\ data = LatestProcessor.value
        /\ (error = NoError /\ result.kind = "str") =>
              cache.summarize_data[<<CallKind, call.scope>>].prompt =
                generate_analysis_prompt(LatestProcessor.value,
                                         CallKind, call.scope).value

====
